---- MODULE Spec2Model ----
(***************************************************************************)
(* A model of src/src/index.ts: the UniswapV3Pool class, which discovers   *)
(* the Uniswap V3 pools of a token against the chain's wrapped native      *)
(* currency and prices them.                                               *)
(*                                                                         *)
(* Strings that the code compares (addresses) are sequences of UTF-16 code *)
(* units, so that JavaScript's `>` on strings is modelled as what it is: a *)
(* lexicographic comparison of code units.  An address is "0x" followed by *)
(* AddrLen hex digits (the real width is 40; the configured addresses are  *)
(* cut to their first AddrLen digits).                                     *)
(*                                                                         *)
(* JavaScript values are tagged records [t |-> type, v |-> value]; a       *)
(* floating-point number is kept as the term that produced it, so that no  *)
(* rounding is invented: <<"lit", m, e>> is m * 10^-e.                     *)
(***************************************************************************)
EXTENDS Integers, Sequences, FiniteSets, TLC

VARIABLES
    chain,          \* this.chain (constructor argument)
    wrappedToken,   \* this.wrappedToken
    token,          \* this.token
    tokenAddress,   \* the argument of getPools
    factoryPools,   \* chain state: the fee tiers the factory has a pool for
    pc,             \* the call getPools issues or awaits next
    inflight,       \* TRUE while the awaited call has been issued and has not returned
    calls,          \* the awaited calls issued so far, in order
    completed,      \* the awaited calls that have returned, in order
    tokenData,      \* getToken: the multicall's results
    tierResults,    \* poolAddresses: the multicall's results
    addresses,      \* getPools: const addresses
    reserveResult,  \* poolsReserves: const result
    reserves,       \* getPools: const reserves
    pricingResult,  \* poolPricing: const result
    feed,           \* fetchNativePrice: what the price feed answered
    nativePrice,    \* poolPricing: const nativePrice
    poolData,       \* getPools: const poolData, printed by console.dir
    error,          \* the error getPools rejects with ("" while none)
    faults,         \* failed reads so far in this scan
    ordered,        \* the result of orderTokens for (token, wrappedToken)
    swapped         \* the result of orderTokens with the two roles exchanged

vars == <<chain, wrappedToken, token, tokenAddress, factoryPools, pc, inflight,
          calls, completed, tokenData, tierResults, addresses, reserveResult,
          reserves, pricingResult, feed, nativePrice, poolData, error, faults,
          ordered, swapped>>

scanVars == <<chain, wrappedToken, token, tokenAddress, factoryPools, pc, inflight,
              calls, completed, tokenData, tierResults, addresses, reserveResult,
              reserves, pricingResult, feed, nativePrice, poolData, error, faults>>

---------------------------------------------------------------------------
(* Bounds *)

\* Hex digits of an address (40 in the program).
AddrLen == 2
\* Failed reads (multicall entries with status "failure") in one scan.
MaxFaults == 2

---------------------------------------------------------------------------
(* JavaScript values *)

Undefined == [t |-> "undefined"]
NaN == [t |-> "NaN"]
Str(s) == [t |-> "string", v |-> s]
BigInt(n) == [t |-> "bigint", v |-> n]
Tuple(s) == [t |-> "tuple", v |-> s]
Float(term) == [t |-> "number", v |-> term]
Num(n) == Float(<<"lit", n, 0>>)

IsNumber(x) == x.t = "number"

\* Number(x): a bigint converts to a number, undefined to NaN.
ToNumber(x) == IF x.t = "bigint" THEN Num(x.v) ELSE IF x.t = "number" THEN x ELSE NaN

\* x / 10 ** d, for x a whole number and d a whole number: the exponent moves.
DivPow10(x, d) ==
    IF IsNumber(x) /\ IsNumber(d) THEN Float(<<"lit", x.v[2], x.v[3] + d.v[2]>>) ELSE NaN

\* x * y and x + y: NaN as soon as an operand is not a number.
Mul(x, y) == IF IsNumber(x) /\ IsNumber(y) THEN Float(<<"mul", x.v, y.v>>) ELSE NaN
Add(x, y) == IF IsNumber(x) /\ IsNumber(y) THEN Float(<<"add", x.v, y.v>>) ELSE NaN

---------------------------------------------------------------------------
(* Strings of code units and addresses *)

\* "0x"
HexPrefix == <<48, 120>>

\* The code units of 0-9, A-F, a-f.
HexChars == (48..57) \cup (65..70) \cup (97..102)

HexValue(c) == IF c \in 48..57 THEN c - 48 ELSE IF c \in 65..70 THEN c - 55 ELSE c - 87

ToLowerChar(c) == IF c \in 65..90 THEN c + 32 ELSE c
ToUpperChar(c) == IF c \in 97..102 THEN c - 32 ELSE c

ToLowerCase(s) == [i \in 1..Len(s) |-> ToLowerChar(s[i])]
\* The same address written with capital hex digits (the "0x" stays).
UpperDigits(s) == [i \in 1..Len(s) |-> IF i <= 2 THEN s[i] ELSE ToUpperChar(s[i])]

\* a < b for JavaScript strings: the first differing code unit decides, a proper
\* prefix is smaller.
RECURSIVE StrLess(_, _)
StrLess(a, b) ==
    IF b = <<>> THEN FALSE
    ELSE IF a = <<>> THEN TRUE
    ELSE IF Head(a) # Head(b) THEN Head(a) < Head(b)
    ELSE StrLess(Tail(a), Tail(b))

StrGreater(a, b) == StrLess(b, a)

\* The address as a big-endian unsigned integer.
RECURSIVE HexNumber(_)
HexNumber(digits) ==
    IF digits = <<>> THEN 0
    ELSE 16 * HexNumber(SubSeq(digits, 1, Len(digits) - 1)) + HexValue(digits[Len(digits)])

AddressValue(a) == HexNumber(SubSeq(a, 3, Len(a)))

Address(digits) == HexPrefix \o SubSeq(digits, 1, AddrLen)

ADDRESS_ZERO == HexPrefix \o [i \in 1..AddrLen |-> 48]

---------------------------------------------------------------------------
(* Configuration *)

Chains == {"mainnet", "sepolia", "bsc", "bscTestnet"}

WrappedDigits(c) ==
    CASE c = "mainnet" ->
           <<99, 48, 50, 97, 97, 97, 51, 57, 98, 50, 50, 51, 102, 101, 56, 100, 48, 97, 48,
             101, 53, 99, 52, 102, 50, 55, 101, 97, 100, 57, 48, 56, 51, 99, 55, 53, 54, 99,
             99, 50>>
      [] c = "sepolia" ->
           <<102, 102, 102, 57, 57, 55, 54, 55, 56, 50, 100, 52, 54, 99, 99, 48, 53, 54, 51,
             48, 100, 49, 102, 54, 101, 98, 97, 98, 49, 56, 98, 50, 51, 50, 52, 100, 54, 98,
             49, 52>>
      [] c = "bsc" ->
           <<98, 98, 52, 67, 100, 66, 57, 67, 66, 100, 51, 54, 66, 48, 49, 98, 68, 49, 99, 66,
             97, 69, 66, 70, 50, 68, 101, 48, 56, 100, 57, 49, 55, 51, 98, 99, 48, 57, 53,
             99>>
      [] c = "bscTestnet" ->
           <<97, 101, 49, 51, 100, 57, 56, 57, 100, 97, 67, 50, 102, 48, 100, 69, 98, 70, 102,
             52, 54, 48, 97, 67, 49, 49, 50, 97, 56, 51, 55, 67, 56, 57, 66, 65, 97, 55, 99,
             100>>

WRAPPED_NATIVE_CURRENCY(c) ==
    [address |-> Address(WrappedDigits(c)),
     name |-> Str(IF c \in {"mainnet", "sepolia"} THEN "Wrapped Ether" ELSE "Wrapped BNB"),
     symbol |-> Str(IF c \in {"mainnet", "sepolia"} THEN "WETH" ELSE "WBNB"),
     decimals |-> Num(18)]

\* FeeAmount.LOWEST, LOW, MEDIUM, HIGH
FEE_TIERS == <<100, 500, 3000, 10000>>

\* The token address the file itself scans (its last line).
SampleDigits ==
    <<98, 54, 101, 97, 55, 53, 51, 99, 48, 97, 100, 100, 52, 52, 99, 50, 57, 102, 99, 54, 51,
      98, 51, 98, 51, 49, 98, 49, 53, 102, 50, 55, 56, 55, 100, 56, 99, 50, 98, 53>>

\* The token addresses a scan is started with: the file's own, the same with
\* capital hex digits, and the chain's wrapped token itself.
ScanTokens(c) ==
    {Address(SampleDigits), UpperDigits(Address(SampleDigits)),
     WRAPPED_NATIVE_CURRENCY(c).address}

---------------------------------------------------------------------------
(* orderTokens *)

orderTokens(tok, wrapped) ==
    IF StrGreater(tok.address, wrapped.address) THEN <<wrapped, tok>> ELSE <<tok, wrapped>>

---------------------------------------------------------------------------
(* The chain, as the reads of one scan see it *)

Min(a, b) == IF a < b THEN a ELSE b

\* The pool the factory created for fee tier number i: "0x", the digit i, zeros.
PoolAddress(i) == HexPrefix \o [k \in 1..AddrLen |-> IF k = 1 THEN 48 + i ELSE 48]

PoolIndex(a) == a[3] - 48

\* What a successful read returns.  The factory knows a pair in both orders and
\* has no pool for a token paired with itself.
ChainRead(c, call) ==
    CASE call.functionName = "name" -> Str("Token")
      [] call.functionName = "symbol" -> Str("TKN")
      [] call.functionName = "decimals" ->
           IF call.address = WRAPPED_NATIVE_CURRENCY(c).address THEN Num(18) ELSE Num(6)
      [] call.functionName = "getPool" ->
           IF /\ \E i \in 1..Len(FEE_TIERS) :
                    FEE_TIERS[i] = call.args[3] /\ FEE_TIERS[i] \in factoryPools
              /\ AddressValue(call.args[1]) # AddressValue(call.args[2])
           THEN Str(PoolAddress(CHOOSE i \in 1..Len(FEE_TIERS) : FEE_TIERS[i] = call.args[3]))
           ELSE Str(ADDRESS_ZERO)
      [] call.functionName = "balanceOf" ->
           BigInt(10 * PoolIndex(call.args[1])
                  + (IF call.address = WRAPPED_NATIVE_CURRENCY(c).address THEN 1 ELSE 2))
      [] call.functionName = "liquidity" -> BigInt(10 * PoolIndex(call.address) + 3)
      [] call.functionName = "slot0" ->
           Tuple(<<PoolIndex(call.address) + 1, PoolIndex(call.address)>>)

\* client.multicall with allowFailure left at its default: one entry per
\* contract, in the contracts' order; a read that fails has no result.
multicall(c, contracts, failed) ==
    [i \in 1..Len(contracts) |->
        IF i \in failed
        THEN [status |-> "failure", result |-> Undefined]
        ELSE [status |-> "success", result |-> ChainRead(c, contracts[i])]]

---------------------------------------------------------------------------
(* getToken *)

getTokenContracts(tokenAddr) ==
    <<[address |-> tokenAddr, functionName |-> "name", args |-> <<>>],
      [address |-> tokenAddr, functionName |-> "symbol", args |-> <<>>],
      [address |-> tokenAddr, functionName |-> "decimals", args |-> <<>>]>>

getToken(tokenAddr, data) ==
    [address |-> tokenAddr,
     name |-> data[1].result,
     symbol |-> data[2].result,
     decimals |-> data[3].result]

---------------------------------------------------------------------------
(* poolAddresses *)

poolAddressesContracts(tok, wrapped) ==
    LET pair == orderTokens(tok, wrapped)
    IN  [i \in 1..Len(FEE_TIERS) |->
            [address |-> "FACTORY", functionName |-> "getPool",
             args |-> <<pair[1].address, pair[2].address, FEE_TIERS[i]>>]]

\* The reduce of poolAddresses over the first n results.
RECURSIVE poolAddressesReduce(_, _)
poolAddressesReduce(results, n) ==
    IF n = 0 THEN <<>>
    ELSE LET acc == poolAddressesReduce(results, n - 1)
             item == results[n]
         IN  IF item.status = "success" /\ item.result # Str(ADDRESS_ZERO)
             THEN Append(acc, [address |-> item.result.v, fee |-> FEE_TIERS[n]])
             ELSE acc

\* The same reduce, the fee taken at the accumulator's length.
RECURSIVE poolAddressesReduceFeeByPosition(_, _)
poolAddressesReduceFeeByPosition(results, n) ==
    IF n = 0 THEN <<>>
    ELSE LET acc == poolAddressesReduceFeeByPosition(results, n - 1)
             item == results[n]
         IN  IF item.status = "success" /\ item.result # Str(ADDRESS_ZERO)
             THEN Append(acc, [address |-> item.result.v, fee |-> FEE_TIERS[Len(acc) + 1]])
             ELSE acc

poolAddressesFeeByPosition(results) == poolAddressesReduceFeeByPosition(results, Len(results))

\* No filter: every tier gets an entry.
poolAddressesKeepAll(results) ==
    [n \in 1..Len(results) |->
        [address |-> IF results[n].status = "success" THEN results[n].result.v
                     ELSE ADDRESS_ZERO,
         fee |-> FEE_TIERS[n]]]

poolAddresses(results) == poolAddressesReduce(results, Len(results))

---------------------------------------------------------------------------
(* chunkArray *)

RECURSIVE chunkFrom(_, _, _)
chunkFrom(arr, size, i) ==
    IF i >= Len(arr) THEN <<>>
    ELSE <<SubSeq(arr, i + 1, Min(i + size, Len(arr)))>> \o chunkFrom(arr, size, i + size)

\* The same chunks, last first.
chunkArrayReversed(arr, size) ==
    LET chunks == chunkFrom(arr, size, 0)
    IN  [k \in 1..Len(chunks) |-> chunks[Len(chunks) + 1 - k]]

chunkArray(arr, size) == chunkFrom(arr, size, 0)

---------------------------------------------------------------------------
(* poolsReserves *)

poolsReservesContracts(pools, tok, wrapped) ==
    [k \in 1..(2 * Len(pools)) |->
        [address |-> IF k % 2 = 1 THEN wrapped.address ELSE tok.address,
         functionName |-> "balanceOf",
         args |-> <<pools[(k + 1) \div 2].address>>]]

poolsReserves(pools, result, tok, wrapped) ==
    LET chunks == chunkArray(result, 2)
    IN  [index \in 1..Len(chunks) |->
            LET pool == pools[index]
                wrappedReserves == chunks[index][1]
                tokenReserves == chunks[index][2]
            IN  [address |-> pool.address,
                 fee |-> pool.fee,
                 wrappedReservesRaw |-> wrappedReserves.result,
                 tokenReservesRaw |-> tokenReserves.result,
                 wrappedReserves |->
                     DivPow10(ToNumber(wrappedReserves.result), wrapped.decimals),
                 tokenReserves |->
                     DivPow10(ToNumber(tokenReserves.result), tok.decimals)]]

---------------------------------------------------------------------------
(* The Uniswap SDK objects poolPricing builds (V3Token, V3Pool) *)

\* Token.sortsBefore: the lower-cased addresses are compared.
sortsBefore(a, b) == StrLess(ToLowerCase(a), ToLowerCase(b))

\* What the statements of the reduce callback throw for one pool, in the order
\* they are evaluated ("" when nothing is thrown): the slot0 guard, new
\* V3Token(token) (decimals must be a whole number), pool.liquidity.toString(),
\* and the V3Pool constructor's sortsBefore (the two addresses must differ).
\* The pool's slot0 is taken to be consistent (its tick is the tick of its
\* square-root price), so the constructor's price bounds hold.
pricingThrows(liquidity, slot0, tok, wrapped) ==
    IF slot0.result.t \in {"undefined", "bigint"} THEN "Slot0 type error"
    ELSE IF ~IsNumber(tok.decimals) THEN "Invariant failed: DECIMALS"
    ELSE IF liquidity.result.t = "undefined" THEN "TypeError"
    ELSE IF ToLowerCase(tok.address) = ToLowerCase(wrapped.address)
         THEN "Invariant failed: ADDRESSES"
    ELSE ""

\* V3Pool.token0Price, as the string toSignificant(6) prints: the amount of
\* token1 one token0 buys.  <<"price", s2, e, base>> is (s2 / 2^192) * 10^-e of
\* the other token for one of `base`; token0 is the token that sorts first.
token0Price(sqrtPriceX96, tok, wrapped) ==
    IF sortsBefore(tok.address, wrapped.address)
    THEN Str(<<"price", sqrtPriceX96 * sqrtPriceX96,
               wrapped.decimals.v[2] - tok.decimals.v[2], "token">>)
    ELSE Str(<<"price", sqrtPriceX96 * sqrtPriceX96,
               tok.decimals.v[2] - wrapped.decimals.v[2], "wrapped">>)

parseFloat(str) == Float(str.v)

---------------------------------------------------------------------------
(* fetchNativePrice *)

nativeId(c) == IF c \in {"mainnet", "sepolia"} THEN "ethereum" ELSE "binancecoin"

\* What the price feed answers, as fetchNativePrice comes to know it: `await
\* fetch` rejects (a network error) or resolves with the status line, and only
\* `await res.json()` delivers the body (`read`).  A body is JSON or not, and as
\* JSON an object with one key, under which `usd` is a number or missing.
NoResponse ==
    [net |-> "none", status |-> 0, read |-> FALSE, json |-> FALSE, key |-> "",
     usd |-> Undefined]

\* What `await fetch(...)` settles with.
Answers ==
    {[NoResponse EXCEPT !.net = "error"],
     [NoResponse EXCEPT !.net = "ok", !.status = 200],
     [NoResponse EXCEPT !.net = "ok", !.status = 429],
     [NoResponse EXCEPT !.net = "ok", !.status = 500]}

\* The bodies res.json() may be given, whatever the status (the code never
\* reads it): the price, an object with the id and no `usd`, an object without
\* the id (an error object), or a body that is no JSON.
Bodies(c) ==
    {[json |-> TRUE, key |-> nativeId(c), usd |-> Num(2000)],
     [json |-> TRUE, key |-> nativeId(c), usd |-> Undefined],
     [json |-> TRUE, key |-> "status", usd |-> Undefined],
     [json |-> FALSE, key |-> "", usd |-> Undefined]}

\* The response once its body has been read.
withBody(resp, body) ==
    [resp EXCEPT !.read = TRUE, !.json = body.json, !.key = body.key, !.usd = body.usd]

\* fetchNativePrice on a response: fetch rejects, res.json() throws on a body
\* that is no JSON, data[id].usd throws when data[id] is undefined, and
\* otherwise data[id].usd is returned as it is.
fetchNativePrice(c, resp) ==
    IF resp.net = "error"
    THEN [threw |-> TRUE, error |-> "TypeError: fetch failed", value |-> Undefined]
    ELSE IF ~resp.json
    THEN [threw |-> TRUE, error |-> "SyntaxError", value |-> Undefined]
    ELSE IF resp.key # nativeId(c)
    THEN [threw |-> TRUE, error |-> "TypeError", value |-> Undefined]
    ELSE [threw |-> FALSE, error |-> "", value |-> resp.usd]

---------------------------------------------------------------------------
(* poolPricing *)

poolPricingContracts(pools) ==
    [k \in 1..(2 * Len(pools)) |->
        [address |-> pools[(k + 1) \div 2].address,
         functionName |-> IF k % 2 = 1 THEN "liquidity" ELSE "slot0",
         args |-> <<>>]]

\* pool['liquidity'] = liquidity.result: the callback's first assignment.
withLiquidity(pool, liquidity) ==
    [address |-> pool.address,
     fee |-> pool.fee,
     wrappedReservesRaw |-> pool.wrappedReservesRaw,
     tokenReservesRaw |-> pool.tokenReservesRaw,
     wrappedReserves |-> pool.wrappedReserves,
     tokenReserves |-> pool.tokenReserves,
     liquidity |-> liquidity.result]

\* The pool after the whole callback: price, priceUSD and tvl assigned too.
pricedPool(pool, liquidity, slot0, native, tok, wrapped) ==
    LET tokenPerWrapped == token0Price(slot0.result.v[1], tok, wrapped)
        priceUSD == Mul(parseFloat(tokenPerWrapped), native)
    IN  [address |-> pool.address,
         fee |-> pool.fee,
         wrappedReservesRaw |-> pool.wrappedReservesRaw,
         tokenReservesRaw |-> pool.tokenReservesRaw,
         wrappedReserves |-> pool.wrappedReserves,
         tokenReserves |-> pool.tokenReserves,
         liquidity |-> liquidity.result,
         price |-> tokenPerWrapped,
         priceUSD |-> priceUSD,
         tvl |-> Add(Mul(priceUSD, pool.tokenReserves), Mul(native, pool.wrappedReserves))]

\* The reduce of poolPricing: it throws at the first pool whose statements
\* throw, and otherwise returns every pool with its four new fields.  The
\* callback assigns to the objects of the array it was given, so `pools` is
\* that array afterwards: the pools before the throw priced, the pool of the
\* throw with its liquidity, the rest untouched.
poolPricing(pools, result, native, tok, wrapped) ==
    LET chunks == chunkArray(result, 2)
        thrown == [index \in 1..Len(chunks) |->
                      pricingThrows(chunks[index][1], chunks[index][2], tok, wrapped)]
        bad == {index \in 1..Len(chunks) : thrown[index] # ""}
        first == IF bad = {} THEN Len(chunks) + 1
                 ELSE CHOOSE index \in bad : \A other \in bad : index <= other
        after == [index \in 1..Len(pools) |->
                     IF index < first
                     THEN pricedPool(pools[index], chunks[index][1], chunks[index][2],
                                     native, tok, wrapped)
                     ELSE IF index = first
                     THEN withLiquidity(pools[index], chunks[index][1])
                     ELSE pools[index]]
    IN  IF bad # {}
        THEN [threw |-> TRUE, error |-> thrown[first], value |-> <<>>, pools |-> after]
        ELSE [threw |-> FALSE, error |-> "", value |-> after, pools |-> after]

---------------------------------------------------------------------------
(* getPools *)

FeeTierSet == {FEE_TIERS[i] : i \in 1..Len(FEE_TIERS)}

\* token: Token = {} as Token
NoToken == [address |-> <<>>, name |-> Undefined, symbol |-> Undefined, decimals |-> Undefined]

\* The calls getPools awaits, in the order its statements make them: poolPricing
\* awaits its multicall and then fetchNativePrice, which awaits fetch and then
\* res.json(); poolPricing resumes with the price and runs its reduce, and
\* getPools resumes with what poolPricing returned and prints it.
getPoolsNextReservesFirst(call) ==
    CASE call = "getToken" -> "poolsReserves"
      [] call = "poolsReserves" -> "poolAddresses"
      [] call = "poolAddresses" -> "poolPricing"
      [] call = "poolPricing" -> "fetchNativePrice"
      [] call = "fetchNativePrice" -> "res.json"
      [] call = "res.json" -> "poolPricing.reduce"
      [] call = "poolPricing.reduce" -> "console.dir"
      [] call = "console.dir" -> "done"

getPoolsNext(call) ==
    CASE call = "getToken" -> "poolAddresses"
      [] call = "poolAddresses" -> "poolsReserves"
      [] call = "poolsReserves" -> "poolPricing"
      [] call = "poolPricing" -> "fetchNativePrice"
      [] call = "fetchNativePrice" -> "res.json"
      [] call = "res.json" -> "poolPricing.reduce"
      [] call = "poolPricing.reduce" -> "console.dir"
      [] call = "console.dir" -> "done"

AwaitedCalls ==
    {"getToken", "poolAddresses", "poolsReserves", "poolPricing", "fetchNativePrice", "res.json"}

\* The sets of reads of a batch of n that may fail, within the scan's budget.
FailureSets(n) == {f \in SUBSET (1..n) : faults + Cardinality(f) <= MaxFaults}

Init ==
    /\ chain \in Chains
    /\ wrappedToken = WRAPPED_NATIVE_CURRENCY(chain)
    /\ tokenAddress \in ScanTokens(chain)
    /\ factoryPools \in SUBSET FeeTierSet
    /\ token = NoToken
    /\ pc = "getToken"
    /\ inflight = FALSE
    /\ calls = <<>>
    /\ completed = <<>>
    /\ tokenData = <<>>
    /\ tierResults = <<>>
    /\ addresses = <<>>
    /\ reserveResult = <<>>
    /\ reserves = <<>>
    /\ pricingResult = <<>>
    /\ feed = NoResponse
    /\ nativePrice = Undefined
    /\ poolData = <<>>
    /\ error = ""
    /\ faults = 0
    /\ ordered = <<>>
    /\ swapped = <<>>

\* getPools reaches an await: the call is made.
Issue ==
    /\ pc \in AwaitedCalls
    /\ ~inflight
    /\ inflight' = TRUE
    /\ calls' = Append(calls, pc)
    /\ UNCHANGED <<chain, wrappedToken, token, tokenAddress, factoryPools, pc, completed,
                   tokenData, tierResults, addresses, reserveResult, reserves,
                   pricingResult, feed, nativePrice, poolData, error, faults, ordered,
                   swapped>>

\* this.token = await this.getToken(tokenAddress)
GetTokenReturns ==
    /\ pc = "getToken" /\ inflight
    /\ \E failed \in FailureSets(3) :
          LET data == multicall(chain, getTokenContracts(tokenAddress), failed)
          IN  /\ tokenData' = data
              /\ token' = getToken(tokenAddress, data)
              /\ faults' = faults + Cardinality(failed)
    /\ pc' = getPoolsNext("getToken")
    /\ inflight' = FALSE
    /\ completed' = Append(completed, "getToken")
    /\ UNCHANGED <<chain, wrappedToken, tokenAddress, factoryPools, calls, tierResults,
                   addresses, reserveResult, reserves, pricingResult, feed, nativePrice,
                   poolData, error, ordered, swapped>>

\* const addresses = await this.poolAddresses()
PoolAddressesReturns ==
    /\ pc = "poolAddresses" /\ inflight
    /\ \E failed \in FailureSets(Len(FEE_TIERS)) :
          LET results == multicall(chain, poolAddressesContracts(token, wrappedToken), failed)
          IN  /\ tierResults' = results
              /\ addresses' = poolAddresses(results)
              /\ faults' = faults + Cardinality(failed)
    /\ pc' = getPoolsNext("poolAddresses")
    /\ inflight' = FALSE
    /\ completed' = Append(completed, "poolAddresses")
    /\ UNCHANGED <<chain, wrappedToken, token, tokenAddress, factoryPools, calls, tokenData,
                   reserveResult, reserves, pricingResult, feed, nativePrice, poolData,
                   error, ordered, swapped>>

\* const reserves = await this.poolsReserves(addresses)
PoolsReservesReturns ==
    /\ pc = "poolsReserves" /\ inflight
    /\ \E failed \in FailureSets(2 * Len(addresses)) :
          LET result == multicall(chain, poolsReservesContracts(addresses, token, wrappedToken),
                                  failed)
          IN  /\ reserveResult' = result
              /\ reserves' = poolsReserves(addresses, result, token, wrappedToken)
              /\ faults' = faults + Cardinality(failed)
    /\ pc' = getPoolsNext("poolsReserves")
    /\ inflight' = FALSE
    /\ completed' = Append(completed, "poolsReserves")
    /\ UNCHANGED <<chain, wrappedToken, token, tokenAddress, factoryPools, calls, tokenData,
                   tierResults, addresses, pricingResult, feed, nativePrice, poolData,
                   error, ordered, swapped>>

\* poolPricing: const result = await this.client.multicall({ contracts })
PoolPricingMulticallReturns ==
    /\ pc = "poolPricing" /\ inflight
    /\ \E failed \in FailureSets(2 * Len(reserves)) :
          /\ pricingResult' = multicall(chain, poolPricingContracts(reserves), failed)
          /\ faults' = faults + Cardinality(failed)
    /\ pc' = getPoolsNext("poolPricing")
    /\ inflight' = FALSE
    /\ completed' = Append(completed, "poolPricing")
    /\ UNCHANGED <<chain, wrappedToken, token, tokenAddress, factoryPools, calls, tokenData,
                   tierResults, addresses, reserveResult, reserves, feed, nativePrice,
                   poolData, error, ordered, swapped>>

\* fetchNativePrice: const res = await fetch(...).  A rejection rejects getPools.
FetchReturns ==
    /\ pc = "fetchNativePrice" /\ inflight
    /\ \E answer \in Answers :
          /\ feed' = answer
          /\ IF answer.net = "error"
             THEN pc' = "error" /\ error' = fetchNativePrice(chain, answer).error
             ELSE pc' = getPoolsNext("fetchNativePrice") /\ error' = ""
    /\ inflight' = FALSE
    /\ completed' = Append(completed, "fetchNativePrice")
    /\ UNCHANGED <<chain, wrappedToken, token, tokenAddress, factoryPools, calls, tokenData,
                   tierResults, addresses, reserveResult, reserves, pricingResult,
                   nativePrice, poolData, faults, ordered, swapped>>

\* fetchNativePrice: const data = await res.json(); return data[id].usd.  The
\* body arrives; a throw of either statement rejects getPools.
ResJsonReturns ==
    /\ pc = "res.json" /\ inflight
    /\ \E body \in Bodies(chain) :
          LET answer == withBody(feed, body)
              fetched == fetchNativePrice(chain, answer)
          IN  /\ feed' = answer
              /\ IF fetched.threw
                 THEN pc' = "error" /\ error' = fetched.error
                 ELSE pc' = getPoolsNext("res.json") /\ error' = ""
    /\ inflight' = FALSE
    /\ completed' = Append(completed, "res.json")
    /\ UNCHANGED <<chain, wrappedToken, token, tokenAddress, factoryPools, calls, tokenData,
                   tierResults, addresses, reserveResult, reserves, pricingResult,
                   nativePrice, poolData, faults, ordered, swapped>>

\* poolPricing resumes with what fetchNativePrice returned: const nativePrice is
\* set and the reduce runs, assigning to the pool objects of `reserves`.  A
\* throw rejects getPools.
PoolPricingReduces ==
    /\ pc = "poolPricing.reduce"
    /\ LET fetched == fetchNativePrice(chain, feed)
           priced == poolPricing(reserves, pricingResult, fetched.value, token, wrappedToken)
       IN  /\ nativePrice' = fetched.value
           /\ reserves' = priced.pools
           /\ IF priced.threw
              THEN pc' = "error" /\ error' = priced.error
              ELSE pc' = getPoolsNext("poolPricing.reduce") /\ error' = ""
    /\ UNCHANGED <<chain, wrappedToken, token, tokenAddress, factoryPools, inflight, calls,
                   completed, tokenData, tierResults, addresses, reserveResult,
                   pricingResult, feed, poolData, faults, ordered, swapped>>

\* getPools resumes with what poolPricing returned (an array of the pool
\* objects of `reserves`, all priced) and prints it.
GetPoolsPrints ==
    /\ pc = "console.dir"
    /\ poolData' = reserves
    /\ pc' = getPoolsNext("console.dir")
    /\ UNCHANGED <<chain, wrappedToken, token, tokenAddress, factoryPools, inflight, calls,
                   completed, tokenData, tierResults, addresses, reserveResult, reserves,
                   pricingResult, feed, nativePrice, error, faults, ordered, swapped>>

Next ==
    \/ Issue
    \/ GetTokenReturns
    \/ PoolAddressesReturns
    \/ PoolsReservesReturns
    \/ PoolPricingMulticallReturns
    \/ FetchReturns
    \/ ResJsonReturns
    \/ PoolPricingReduces
    \/ GetPoolsPrints

Spec == Init /\ [][Next]_vars

---------------------------------------------------------------------------
(* orderTokens on its own, for every pair of addresses *)

\* The hex digits the pairs are drawn from: a digit and letters in both casings.
InputChars == {48, 57, 65, 70, 97, 102}

InputAddresses == {HexPrefix \o d : d \in [1..AddrLen -> InputChars]}

TokenAt(a) == [address |-> a, name |-> Str("Token"), symbol |-> Str("TKN"), decimals |-> Num(6)]

InitOrder ==
    /\ chain = "mainnet"
    /\ \E a \in InputAddresses : wrappedToken = [WRAPPED_NATIVE_CURRENCY(chain) EXCEPT !.address = a]
    /\ tokenAddress \in InputAddresses
    /\ token = TokenAt(tokenAddress)
    /\ factoryPools = {}
    /\ pc = "orderTokens"
    /\ inflight = FALSE
    /\ calls = <<>>
    /\ completed = <<>>
    /\ tokenData = <<>>
    /\ tierResults = <<>>
    /\ addresses = <<>>
    /\ reserveResult = <<>>
    /\ reserves = <<>>
    /\ pricingResult = <<>>
    /\ feed = NoResponse
    /\ nativePrice = Undefined
    /\ poolData = <<>>
    /\ error = ""
    /\ faults = 0
    /\ ordered = <<>>
    /\ swapped = <<>>

\* orderTokens with this.token = A and this.wrappedToken = B
OrderTokens ==
    /\ pc = "orderTokens"
    /\ ordered = <<>>
    /\ ordered' = orderTokens(token, wrappedToken)
    /\ UNCHANGED <<scanVars, swapped>>

\* orderTokens with this.token = B and this.wrappedToken = A
OrderTokensSwapped ==
    /\ pc = "orderTokens"
    /\ swapped = <<>>
    /\ swapped' = orderTokens(wrappedToken, token)
    /\ UNCHANGED <<scanVars, ordered>>

NextOrder == OrderTokens \/ OrderTokensSwapped

SpecOrder == InitOrder /\ [][NextOrder]_vars

---------------------------------------------------------------------------
(* Properties *)

Returned(call) == \E k \in 1..Len(completed) : completed[k] = call
Issued(call) == \E k \in 1..Len(calls) : calls[k] = call

IsPrefix(a, b) == Len(a) <= Len(b) /\ \A k \in 1..Len(a) : a[k] = b[k]

\* The feed failed: a network error, a status other than 200, or a body without
\* the asset's `usd` number.
feedFailed(c, resp) ==
    \/ resp.net = "error"
    \/ resp.net = "ok" /\ resp.status # 200
    \/ resp.read /\ (~resp.json \/ resp.key # nativeId(c) \/ ~IsNumber(resp.usd))

\* fetchNativePrice threw: fetch rejected, or the body was read and reading it
\* or looking the price up threw.
feedThrew == feed.net = "error" \/ (feed.read /\ fetchNativePrice(chain, feed).threw)

Priced(pool) == "price" \in DOMAIN pool \/ "priceUSD" \in DOMAIN pool \/ "tvl" \in DOMAIN pool

\* The tiers whose getPool call succeeded with an address other than zero.
TierHits ==
    {i \in 1..Len(tierResults) :
        tierResults[i].status = "success" /\ tierResults[i].result.v # ADDRESS_ZERO}

\* Every tier's call succeeded and returned the zero address.
AllTiersZero ==
    /\ Returned("poolAddresses")
    /\ \A i \in 1..Len(tierResults) :
          tierResults[i].status = "success" /\ tierResults[i].result.v = ADDRESS_ZERO

BalanceCall(tokenAddr, poolAddr) ==
    [address |-> tokenAddr, functionName |-> "balanceOf", args |-> <<poolAddr>>]
PoolCall(poolAddr, fn) == [address |-> poolAddr, functionName |-> fn, args |-> <<>>]

\* C1: for two numerically distinct addresses in any casing, orderTokens puts the
\* numerically smaller address first, and the result is the same pair of
\* addresses whichever of the two is the target token and whichever the wrapped
\* token.
C1_OrderTokensNumeric ==
    AddressValue(token.address) # AddressValue(wrappedToken.address) =>
        /\ ordered # <<>> =>
              AddressValue(ordered[1].address) < AddressValue(ordered[2].address)
        /\ (ordered # <<>> /\ swapped # <<>>) =>
              /\ ordered[1].address = swapped[1].address
              /\ ordered[2].address = swapped[2].address

\* C2: every pool poolPricing returns has as `price` the amount of the target
\* token for one wrapped-native unit, whichever of the two sorts first.
C2_PriceIsTargetPerWrapped ==
    \A i \in 1..Len(poolData) : poolData[i].price.v[4] = "wrapped"

\* C3: poolAddresses returns exactly the tiers whose call succeeded with a
\* non-zero address, each with its own address and fee, in tier order; so never
\* the zero address and at most four entries.
C3_DiscoveryKeepsExactlyTheHits ==
    Returned("poolAddresses") =>
        /\ Len(addresses) = Cardinality(TierHits)
        /\ Len(addresses) <= Len(FEE_TIERS)
        /\ \A k \in 1..Len(addresses) :
              /\ addresses[k].address # ADDRESS_ZERO
              /\ \E i \in TierHits :
                    /\ k = Cardinality({j \in TierHits : j <= i})
                    /\ addresses[k].fee = FEE_TIERS[i]
                    /\ addresses[k].address = tierResults[i].result.v

\* A failed tier, a zero tier and two pools in one batch.
C3_Witness ==
    /\ Returned("poolAddresses")
    /\ Len(addresses) = 2
    /\ \E i \in 1..Len(tierResults) : tierResults[i].status = "failure"
    /\ \E i \in 1..Len(tierResults) :
          tierResults[i].status = "success" /\ tierResults[i].result.v = ADDRESS_ZERO
    /\ addresses[1].fee # FEE_TIERS[1]

\* C4: when one of the three metadata reads fails, getPools ends in an error and
\* no discovery, reserve or pricing call is made.
C4_MetadataFailureAborts ==
    (\E i \in 1..Len(tokenData) : tokenData[i].status = "failure") =>
        /\ pc = "error"
        /\ ~Issued("poolAddresses") /\ ~Issued("poolsReserves") /\ ~Issued("poolPricing")

\* C5: neither poolsReserves nor the scan returns an entry for a pool one of
\* whose two balanceOf reads failed.
C5_NoEntryFromFailedBalanceRead ==
    /\ \A i \in 1..Len(reserves) :
          /\ reserveResult[2 * i - 1].status = "success"
          /\ reserveResult[2 * i].status = "success"
    /\ \A i \in 1..Len(poolData) :
          /\ reserveResult[2 * i - 1].status = "success"
          /\ reserveResult[2 * i].status = "success"

\* C6: when the native price feed fails, the scan does not complete, no pool
\* receives price, priceUSD or tvl, and nothing is output; once the whole answer
\* is known the scan has ended in an error.
C6_FeedFailureAborts ==
    feedFailed(chain, feed) =>
        /\ pc # "done"
        /\ poolData = <<>>
        /\ \A i \in 1..Len(reserves) : ~Priced(reserves[i])
        /\ (feed.net = "error" \/ feed.read) => pc = "error"

\* C7 as stated: when every tier returns the zero address, no stage raises an
\* error and getPools completes with an empty list.
C7_AllZeroNeverFails ==
    AllTiersZero =>
        /\ addresses = <<>>
        /\ Returned("poolsReserves") => reserves = <<>>
        /\ pc # "error"
        /\ pc = "done" => poolData = <<>>

\* C7 amended: when every tier returns the zero address, discovery and the
\* reserve stage return empty lists, the only error getPools can end in is a
\* throw of fetchNativePrice, and a completed scan's list is empty.
C7_AllZeroFailsOnlyOnFeed ==
    AllTiersZero =>
        /\ addresses = <<>>
        /\ Returned("poolsReserves") => reserves = <<>> /\ reserveResult = <<>>
        /\ Returned("poolPricing") => pricingResult = <<>>
        /\ pc = "error" => feedThrew
        /\ (feed.read /\ ~feedThrew) => pc \in {"poolPricing.reduce", "console.dir", "done"}
        /\ pc = "done" => poolData = <<>>

\* Every tier answered zero, both later stages ran, and the scan completed.
C7_Witness ==
    AllTiersZero /\ pc = "done" /\ poolData = <<>> /\ Returned("poolPricing")

\* C8: a target token equal to the wrapped-native token is rejected: no factory
\* lookup, reserve read or pricing read is made, and the scan does not complete.
C8_SameTokenRejected ==
    AddressValue(tokenAddress) = AddressValue(wrappedToken.address) =>
        /\ ~Issued("poolAddresses") /\ ~Issued("poolsReserves") /\ ~Issued("poolPricing")
        /\ pc # "done"

StageOrder ==
    <<"getToken", "poolAddresses", "poolsReserves", "poolPricing", "fetchNativePrice", "res.json">>

\* C9: the calls of one getPools are made in the order metadata, discovery,
\* reserves, pricing; a call is made only when every earlier one has returned;
\* each stage reads for every pool the stage before returned; after an error
\* no call is in flight or unanswered and nothing is output.
C9_StagesInStrictOrder ==
    /\ IsPrefix(calls, StageOrder)
    /\ IsPrefix(completed, calls)
    /\ Len(calls) = Len(completed) + (IF inflight THEN 1 ELSE 0)
    /\ Returned("poolsReserves") =>
          Len(reserveResult) = 2 * Len(addresses) /\ Len(reserves) = Len(addresses)
    /\ Returned("poolPricing") => Len(pricingResult) = 2 * Len(reserves)
    /\ Issued("poolAddresses") => token.address = tokenAddress
    /\ (\E i \in 1..Len(reserves) : Priced(reserves[i])) => completed = StageOrder
    /\ poolData # <<>> => pc = "done"
    /\ pc = "error" => ~inflight /\ poolData = <<>> /\ calls = completed
    /\ pc = "done" => completed = StageOrder

\* A scan with a pool failed in its last stage, every earlier call returned.
C9_Witness ==
    /\ pc = "error" /\ error = "Slot0 type error"
    /\ completed = StageOrder
    /\ Len(reserves) >= 1

\* C10: poolsReserves and poolPricing return one entry per input pool, entry i
\* with pool i's address and fee and the values of results 2i-1 and 2i (counted
\* from 1), which are the reads made of pool i itself.
C10_EntryMatchesItsOwnReads ==
    /\ Returned("poolsReserves") =>
          /\ Len(reserves) = Len(addresses)
          /\ \A i \in 1..Len(reserves) :
                /\ reserves[i].address = addresses[i].address
                /\ reserves[i].fee = addresses[i].fee
                /\ reserves[i].wrappedReservesRaw = reserveResult[2 * i - 1].result
                /\ reserves[i].tokenReservesRaw = reserveResult[2 * i].result
                /\ reserveResult[2 * i - 1].status = "success" =>
                      reserves[i].wrappedReservesRaw =
                          ChainRead(chain, BalanceCall(wrappedToken.address,
                                                       addresses[i].address))
                /\ reserveResult[2 * i].status = "success" =>
                      reserves[i].tokenReservesRaw =
                          ChainRead(chain, BalanceCall(token.address, addresses[i].address))
    /\ pc \in {"console.dir", "done"} =>
          /\ Len(reserves) = Len(addresses)
          /\ \A i \in 1..Len(reserves) :
                /\ reserves[i].liquidity = pricingResult[2 * i - 1].result
                /\ reserves[i].liquidity =
                      ChainRead(chain, PoolCall(addresses[i].address, "liquidity"))
                /\ LET s == pricingResult[2 * i].result.v[1]
                   IN  /\ reserves[i].price.v[2] = s * s
                       /\ pricingResult[2 * i].result =
                             ChainRead(chain, PoolCall(addresses[i].address, "slot0"))
    /\ pc = "done" => poolData = reserves

\* A completed scan of three pools.
C10_Witness ==
    pc = "done" /\ Len(poolData) = 3

====
